---- MODULE Spec2Model ----
(***************************************************************************)
(* tsdoc: resolution of a dotted symbol path against a universe of         *)
(* declaration files and extraction of a description of the resolved       *)
(* symbol.  The model follows src/unnamed/part_001 (the command line       *)
(* program): main, tryFindPackage, findAndPrintDocs, resolvePackageTypes,  *)
(* getLibFiles, findSymbolInFile, getSymbolKind, printModuleExports and    *)
(* printSymbolDocs.                                                        *)
(*                                                                         *)
(* Strings are sequences of tokens.  A symbol path such as "pkg.Bar" is    *)
(* <<"pkg", ".", "Bar">>; a path segment is the sequence of tokens between *)
(* two dots, so the text of the declared name Bar is <<"Bar">>.  A file    *)
(* path is the sequence of its components.                                 *)
(*                                                                         *)
(* The file system, the installed packages and the answers of the type     *)
(* checker are the environment: tables below, and inputs drawn with \E.    *)
(***************************************************************************)
EXTENDS Naturals, Sequences, FiniteSets, TLC

VARIABLES
    args,             \* process.argv.slice(2)
    pc,               \* position of the single thread of control
    env,              \* the file system: manifests, lib directory, local files
    parts,            \* symbolPath.split(".")
    libFiles,         \* the declaration universe built by getLibFiles
    searchParts,      \* the segments findSymbolInFile resolves
    isPackageQuery,
    files,            \* program.getSourceFiles()
    packageTypeFiles,
    idx,              \* position of the for loop over the source files
    scanned,          \* the files findSymbolInFile was called on, in order
    symbol,           \* the symbol handed to printSymbolDocs
    via,              \* how its root was found: "visit" or "exports"
    sourceFile,       \* the file handed to the printer
    data,             \* the checker's answers about the entity being printed
    stdout,
    stderr,
    exitCode,         \* process exit status; NoExit while running
    previous          \* the outcome of an earlier run on the same input, if any

vars == <<args, pc, env, parts, libFiles, searchParts, isPackageQuery, files,
          packageTypeFiles, idx, scanned, symbol, via, sourceFile, data,
          stdout, stderr, exitCode, previous>>

----------------------------------------------------------------------------
(* Bounds of the model                                                     *)

MaxTail == 2          \* segments after the root segment of a path
MaxDirEntries == 2    \* entries of the TypeScript lib directory
MaxTags == 2          \* doc tags on a symbol
MaxOver == 2          \* how far a member or export list exceeds its cap

----------------------------------------------------------------------------
(* Sequences                                                               *)

Range(s) == {s[i] : i \in 1..Len(s)}

SeqsUpTo(S, n) == UNION {[1..k -> S] : k \in 0..n}

DistinctSeqsUpTo(S, n) ==
    {s \in SeqsUpTo(S, n) : \A i, j \in 1..Len(s) : i # j => s[i] # s[j]}

RECURSIVE Flatten(_)
Flatten(ss) == IF ss = <<>> THEN <<>> ELSE Head(ss) \o Flatten(Tail(ss))

Take(s, n) == SubSeq(s, 1, IF Len(s) < n THEN Len(s) ELSE n)

Contains(s, x) == \E i \in 1..Len(s) : s[i] = x

\* IndexOf(s, x): the first position of x in s, 0 when absent
IndexOf(s, x) ==
    IF Contains(s, x) THEN CHOOSE i \in 1..Len(s) : s[i] = x /\ \A j \in 1..(i-1) : s[j] # x
    ELSE 0

----------------------------------------------------------------------------
(* Strings: String.prototype.split(".") and the texts of names             *)

Dot == "."

RECURSIVE Split(_)
Split(str) ==
    IF ~Contains(str, Dot) THEN <<str>>
    ELSE LET i == IndexOf(str, Dot)
         IN  <<SubSeq(str, 1, i - 1)>> \o Split(SubSeq(str, i + 1, Len(str)))

RECURSIVE Join(_)
Join(segs) ==
    IF segs = <<>> THEN <<>>
    ELSE IF Len(segs) = 1 THEN Head(segs)
    ELSE Head(segs) \o <<Dot>> \o Join(Tail(segs))

Text(name) == <<name>>

\* moduleName = node.name.getText().replace(/['"]/g, "")
StripQuotes(name) ==
    CASE name = "\"NS\"" -> "NS"
      [] name = "'NS'" -> "NS"
      [] OTHER -> name

----------------------------------------------------------------------------
(* File paths: path.join, path.dirname, String.prototype.includes          *)

RECURSIVE Normalize(_)
Normalize(p) ==
    IF p = <<>> THEN <<>>
    ELSE IF Head(p) = "." THEN Normalize(Tail(p))
    ELSE <<Head(p)>> \o Normalize(Tail(p))

PathJoin(dir, rel) == Normalize(dir \o rel)

\* f.includes("/typescript/lib/")
IncludesTsLib(f) ==
    \E i \in 1..Len(f) : i + 2 <= Len(f) /\ f[i] = "typescript" /\ f[i + 1] = "lib"

\* f.startsWith("lib.") and f.endsWith(".d.ts"), on the names a directory can hold
StartsWithLib(f) == f \in {"lib.a.d.ts", "lib.b.d.ts"}
EndsWithDts(f) == f \in {"lib.a.d.ts", "lib.b.d.ts", "typescript.d.ts"}

NodeModules == <<"nm">>
\* path.dirname(require.resolve("typescript"))
TsLibDir == NodeModules \o <<"typescript", "lib">>
\* path.dirname(require.resolve(`${packageName}/package.json`))
PackageDir(name) == NodeModules \o name
\* `@types/${packageName...}`; the packages of the model have no scope
TypesPackageDir(name) == NodeModules \o <<"@types">> \o name

LA == TsLibDir \o <<"lib.a.d.ts">>
LB == TsLibDir \o <<"lib.b.d.ts">>
TSD == TsLibDir \o <<"typescript.d.ts">>
PM == PackageDir(<<"pkg">>) \o <<"main.d.ts">>
PS == PackageDir(<<"pkg">>) \o <<"src", "main.ts">>
PT == PackageDir(<<"pkg">>) \o <<"typings.d.ts">>
PI == PackageDir(<<"pkg">>) \o <<"index.d.ts">>
TI == TypesPackageDir(<<"pkg">>) \o <<"index.d.ts">>
EX == <<".", "example.ts">>

----------------------------------------------------------------------------
(* Package manifests (package.json) as the file system holds them           *)

Field(t, s, r) == [truthy |-> t, string |-> s, rel |-> r]
NoField == Field(FALSE, TRUE, <<>>)
\* a types field that is no string, such as true or an object
BadField == Field(TRUE, FALSE, <<>>)
Str(rel) == Field(TRUE, TRUE, rel)

Manifest(f, r, t, ty, i) ==
    [found |-> f, readable |-> r, types |-> t, typings |-> ty, index |-> i]

Absent == Manifest(FALSE, FALSE, NoField, NoField, FALSE)
Unreadable == Manifest(TRUE, FALSE, NoField, NoField, FALSE)

MainManifests ==
    { Absent, Unreadable,
      Manifest(TRUE, TRUE, Str(<<".", "main.d.ts">>), Str(<<"typings.d.ts">>), TRUE),
      Manifest(TRUE, TRUE, Str(<<"src", "main.ts">>), NoField, FALSE),
      Manifest(TRUE, TRUE, BadField, NoField, TRUE),
      Manifest(TRUE, TRUE, NoField, Str(<<"typings.d.ts">>), TRUE),
      Manifest(TRUE, TRUE, NoField, NoField, TRUE),
      Manifest(TRUE, TRUE, NoField, NoField, FALSE) }

TypesManifests ==
    { Absent, Unreadable,
      Manifest(TRUE, TRUE, Str(<<"index.d.ts">>), NoField, TRUE),
      Manifest(TRUE, TRUE, NoField, NoField, TRUE) }

TsManifest == Manifest(TRUE, TRUE, Str(<<".", "lib", "typescript.d.ts">>), NoField, FALSE)

DirEntries == {"lib.a.d.ts", "lib.b.d.ts", "typescript.d.ts"}

\* The environments in which a path with the given root segment is looked up:
\* only the package the root names can be installed, only the example module
\* can be a local file.
Envs(root) ==
    [ main : IF root = <<"pkg">> THEN MainManifests
             ELSE IF root = <<"typescript">> THEN {TsManifest} ELSE {Absent},
      types : IF root = <<"pkg">> THEN TypesManifests ELSE {Absent},
      tsFound : BOOLEAN,
      dir : DistinctSeqsUpTo(DirEntries, MaxDirEntries),
      local : IF root = <<"example">> THEN BOOLEAN ELSE {FALSE} ]

----------------------------------------------------------------------------
(* Declaration files: syntax trees (ts.Node), by file                       *)

\* A node: its syntax kind, the text of its name, the key of the symbol the
\* checker gives at that name, its declarators or export specifiers
\* (VariableStatement, ExportDeclaration), and the statements of its body
\* (ModuleDeclaration).
Node(k, n, s, d, b) == [kind |-> k, name |-> n, sym |-> s, decls |-> d, body |-> b]
Named(n, s) == [name |-> n, sym |-> s]

Leaf(k, n, s) == Node(k, n, s, <<>>, <<>>)

SourceFileOf(f) ==
    CASE f = LA ->
           [isDeclarationFile |-> TRUE, isModule |-> FALSE,
            statements |-> << Leaf("InterfaceDeclaration", "Foo", "Foo"),
                              Node("VariableStatement", "", "", <<Named("Foo", "Foo")>>, <<>>),
                              Leaf("FunctionDeclaration", "fn", "fn") >>,
            exports |-> <<>>,
            lineStarts |-> <<0, 10, 20, 30>>]
      [] f = LB ->
           [isDeclarationFile |-> TRUE, isModule |-> FALSE,
            statements |-> << Node("ModuleDeclaration", "\"NS\"", "NS", <<>>,
                                   << Leaf("ClassDeclaration", "Foo", "NS.Foo"),
                                      Leaf("InterfaceDeclaration", "Bar", "NS.Bar") >>),
                              Leaf("InterfaceDeclaration", "Foo", "Foo") >>,
            exports |-> <<>>,
            lineStarts |-> <<0, 2, 4, 6, 8>>]
      [] f = TSD ->
           [isDeclarationFile |-> TRUE, isModule |-> TRUE,
            statements |-> << Leaf("InterfaceDeclaration", "Bar", "ts.Bar") >>,
            exports |-> <<"ts.Bar">>,
            lineStarts |-> <<0, 5>>]
      [] f = PM ->
           [isDeclarationFile |-> TRUE, isModule |-> TRUE,
            statements |-> << Leaf("InterfaceDeclaration", "Bar", "pkg.Bar"),
                              Node("VariableStatement", "", "",
                                   <<Named("v", "pkg.v"), Named("Bar", "pkg.Bar")>>, <<>>),
                              Leaf("FunctionDeclaration", "fn", "pkg.fn"),
                              Node("ExportDeclaration", "", "", <<Named("Foo", "pkg.Foo")>>, <<>>) >>,
            exports |-> <<"pkg.Bar", "pkg.v", "pkg.fn", "pkg.Foo">>,
            lineStarts |-> <<0, 5, 10, 15, 20, 25>>]
      [] f = PS ->
           [isDeclarationFile |-> FALSE, isModule |-> TRUE,
            statements |-> << Leaf("ClassDeclaration", "Bar", "src.Bar") >>,
            exports |-> <<"src.Bar">>,
            lineStarts |-> <<0, 5>>]
      [] f = PT ->
           [isDeclarationFile |-> TRUE, isModule |-> TRUE,
            statements |-> << Leaf("InterfaceDeclaration", "Bar", "pkgT.Bar") >>,
            exports |-> <<"pkgT.Bar">>,
            lineStarts |-> <<0, 5>>]
      [] f = PI ->
           [isDeclarationFile |-> TRUE, isModule |-> TRUE,
            statements |-> << Leaf("TypeAliasDeclaration", "Bar", "pkgI.Bar") >>,
            exports |-> <<"pkgI.Bar">>,
            lineStarts |-> <<0, 5>>]
      [] f = TI ->
           [isDeclarationFile |-> TRUE, isModule |-> TRUE,
            statements |-> << Leaf("ClassDeclaration", "Bar", "types.Bar"),
                              Node("VariableStatement", "", "", <<Named("fn", "types.fn")>>, <<>>) >>,
            exports |-> <<"types.Bar", "types.fn">>,
            lineStarts |-> <<0, 3, 6, 9>>]
      [] f = EX ->
           [isDeclarationFile |-> FALSE, isModule |-> TRUE,
            statements |-> << Leaf("FunctionDeclaration", "greet", "ex.greet"),
                              Leaf("InterfaceDeclaration", "Person", "ex.Person"),
                              Node("VariableStatement", "", "", <<Named("add", "ex.add")>>, <<>>),
                              Leaf("TypeAliasDeclaration", "Config", "ex.Config") >>,
            exports |-> <<"ex.greet", "ex.Person", "ex.add", "ex.Config">>,
            lineStarts |-> <<0, 9, 16, 31, 36>>]

\* the files that exist on disk
FileExists(f) == f \in {LA, LB, TSD, PM, PS, PT, PI, TI, EX}

----------------------------------------------------------------------------
(* Symbols (ts.Symbol) and what the checker knows of them                   *)

\* A symbol value: a table key, or the n-th anonymous property, member or
\* export of a long list (n > 0).
Sym(key) == [key |-> key, n |-> 0]
Filler(key, n) == [key |-> key, n |-> n]
NoSym == Sym("")

Decl(k, f, p, m) == [kind |-> k, file |-> f, pos |-> p, members |-> m]
NoDecl == Decl("", <<>>, 0, <<>>)

\* every declaration of a symbol, and the properties and signatures of the
\* type of its value
SymbolInfo(key) ==
    CASE key = "Foo" ->
           [name |-> "Foo",
            decls |-> << Decl("InterfaceDeclaration", LA, 12, <<"a", "">>),
                         Decl("VariableDeclaration", LA, 25, <<>>),
                         Decl("InterfaceDeclaration", LB, 7, <<"c">>) >>,
            props |-> <<"Foo.a", "Foo.b">>, calls |-> 0, ctors |-> 1]
      [] key = "Foo.a" ->
           [name |-> "a",
            decls |-> << Decl("MethodSignature", LA, 31, <<>>) >>,
            props |-> <<>>, calls |-> 1, ctors |-> 0]
      [] key = "Foo.b" ->
           [name |-> "b",
            decls |-> << Decl("PropertySignature", LB, 9, <<>>) >>,
            props |-> <<>>, calls |-> 0, ctors |-> 0]
      [] key = "fn" ->
           [name |-> "fn",
            decls |-> << Decl("FunctionDeclaration", LA, 35, <<>>) >>,
            props |-> <<>>, calls |-> 1, ctors |-> 0]
      [] key = "NS" ->
           [name |-> "\"NS\"",
            decls |-> << Decl("ModuleDeclaration", LB, 0, <<>>) >>,
            props |-> <<"NS.Foo">>, calls |-> 0, ctors |-> 0]
      [] key = "NS.Foo" ->
           [name |-> "Foo",
            decls |-> << Decl("ClassDeclaration", LB, 3, <<>>) >>,
            props |-> <<"NS.Foo.a", "NS.Foo.b">>, calls |-> 0, ctors |-> 1]
      [] key = "NS.Foo.a" ->
           [name |-> "a", decls |-> <<>>, props |-> <<>>, calls |-> 0, ctors |-> 0]
      [] key = "NS.Foo.b" ->
           [name |-> "b",
            decls |-> << Decl("PropertyDeclaration", LB, 4, <<>>) >>,
            props |-> <<>>, calls |-> 0, ctors |-> 0]
      [] key = "NS.Bar" ->
           [name |-> "Bar",
            decls |-> << Decl("InterfaceDeclaration", LB, 5, <<"b">>) >>,
            props |-> <<>>, calls |-> 0, ctors |-> 0]
      [] key = "ts.Bar" ->
           [name |-> "Bar",
            decls |-> << Decl("InterfaceDeclaration", TSD, 0, <<"a">>) >>,
            props |-> <<>>, calls |-> 0, ctors |-> 0]
      [] key = "pkg.Bar" ->
           [name |-> "Bar",
            decls |-> << Decl("InterfaceDeclaration", PM, 2, <<"a">>),
                         Decl("VariableDeclaration", PM, 14, <<>>) >>,
            props |-> <<"pkg.Bar.a">>, calls |-> 0, ctors |-> 0]
      [] key = "pkg.Bar.a" ->
           [name |-> "a",
            decls |-> << Decl("PropertySignature", PM, 16, <<>>) >>,
            props |-> <<>>, calls |-> 0, ctors |-> 0]
      [] key = "pkg.v" ->
           [name |-> "v",
            decls |-> << Decl("VariableDeclaration", PM, 12, <<>>) >>,
            props |-> <<>>, calls |-> 0, ctors |-> 0]
      [] key = "pkg.fn" ->
           [name |-> "fn",
            decls |-> << Decl("FunctionDeclaration", PM, 20, <<>>) >>,
            props |-> <<>>, calls |-> 1, ctors |-> 0]
      [] key = "pkg.Foo" ->
           [name |-> "Foo",
            decls |-> << Decl("ExportSpecifier", PM, 26, <<>>) >>,
            props |-> <<>>, calls |-> 0, ctors |-> 0]
      [] key = "src.Bar" ->
           [name |-> "Bar",
            decls |-> << Decl("ClassDeclaration", PS, 0, <<>>) >>,
            props |-> <<>>, calls |-> 0, ctors |-> 1]
      [] key = "pkgT.Bar" ->
           [name |-> "Bar",
            decls |-> << Decl("InterfaceDeclaration", PT, 0, <<"a", "b">>) >>,
            props |-> <<>>, calls |-> 0, ctors |-> 0]
      [] key = "pkgI.Bar" ->
           [name |-> "Bar",
            decls |-> << Decl("TypeAliasDeclaration", PI, 0, <<>>) >>,
            props |-> <<>>, calls |-> 0, ctors |-> 0]
      [] key = "types.Bar" ->
           [name |-> "Bar",
            decls |-> << Decl("ClassDeclaration", TI, 0, <<>>) >>,
            props |-> <<"types.Bar.b">>, calls |-> 0, ctors |-> 1]
      [] key = "types.Bar.b" ->
           [name |-> "b",
            decls |-> << Decl("PropertyDeclaration", TI, 4, <<>>) >>,
            props |-> <<>>, calls |-> 0, ctors |-> 0]
      [] key = "types.fn" ->
           [name |-> "fn",
            decls |-> << Decl("VariableDeclaration", TI, 7, <<>>) >>,
            props |-> <<>>, calls |-> 1, ctors |-> 0]
      [] key = "ex.greet" ->
           [name |-> "greet",
            decls |-> << Decl("FunctionDeclaration", EX, 9, <<>>) >>,
            props |-> <<>>, calls |-> 1, ctors |-> 0]
      [] key = "ex.Person" ->
           [name |-> "Person",
            decls |-> << Decl("InterfaceDeclaration", EX, 16, <<"name", "age", "email">>) >>,
            props |-> <<>>, calls |-> 0, ctors |-> 0]
      [] key = "ex.add" ->
           [name |-> "add",
            decls |-> << Decl("VariableDeclaration", EX, 31, <<>>) >>,
            props |-> <<>>, calls |-> 1, ctors |-> 0]
      [] key = "ex.Config" ->
           [name |-> "Config",
            decls |-> << Decl("TypeAliasDeclaration", EX, 36, <<>>) >>,
            props |-> <<"ex.Config.debug", "ex.Config.port">>, calls |-> 0, ctors |-> 0]
      [] OTHER ->
           [name |-> "", decls |-> <<>>, props |-> <<>>, calls |-> 0, ctors |-> 0]

\* the declaration kinds that give a symbol a value (symbol.valueDeclaration)
ValueKinds ==
    {"VariableDeclaration", "FunctionDeclaration", "ClassDeclaration",
     "EnumDeclaration", "ModuleDeclaration", "MethodSignature",
     "PropertySignature", "PropertyDeclaration"}

----------------------------------------------------------------------------
(* The checker's queries                                                    *)

\* symbol.declarations: the declarations in the files of the program, in
\* program order
Declarations(sym, prog) ==
    IF sym.n # 0 THEN <<>>
    ELSE Flatten([i \in 1..Len(prog) |->
                    SelectSeq(SymbolInfo(sym.key).decls, LAMBDA d : d.file = prog[i])])

\* symbol.valueDeclaration
ValueDeclaration(sym, prog) ==
    LET ds == SelectSeq(Declarations(sym, prog), LAMBDA d : d.kind \in ValueKinds)
    IN  IF ds = <<>> THEN NoDecl ELSE Head(ds)

\* symbol.valueDeclaration || symbol.declarations?.[0]
DeclOf(sym, prog) ==
    IF ValueDeclaration(sym, prog) # NoDecl THEN ValueDeclaration(sym, prog)
    ELSE IF Declarations(sym, prog) # <<>> THEN Head(Declarations(sym, prog))
    ELSE NoDecl

\* symbol.getName()
GetName(sym) == IF sym.n = 0 THEN SymbolInfo(sym.key).name ELSE "#"

\* checker.getTypeOfSymbolAtLocation(symbol, decl).getProperties()
\* a property that a file declares exists when that file is in the program
GetProperties(sym, prog) ==
    IF sym.n # 0 THEN <<>>
    ELSE SelectSeq([i \in 1..Len(SymbolInfo(sym.key).props) |->
                       Sym(SymbolInfo(sym.key).props[i])],
                   LAMBDA q : SymbolInfo(q.key).decls = <<>> \/ Declarations(q, prog) # <<>>)

\* type.getProperty(part)
GetProperty(sym, part, prog) ==
    LET ps == SelectSeq(GetProperties(sym, prog), LAMBDA q : Text(GetName(q)) = part)
    IN  IF ps = <<>> THEN NoSym ELSE Head(ps)

\* checker.getExportsOfModule(checker.getSymbolAtLocation(sourceFile))
GetExportsOfModule(f) ==
    [i \in 1..Len(SourceFileOf(f).exports) |-> Sym(SourceFileOf(f).exports[i])]

\* sourceFile.getLineAndCharacterOfPosition(pos).line, zero based
LineOfPosition(f, pos) ==
    Cardinality({i \in 1..Len(SourceFileOf(f).lineStarts) :
                    SourceFileOf(f).lineStarts[i] <= pos}) - 1

----------------------------------------------------------------------------
(* tryFindPackage, resolvePackageTypes, getLibFiles                         *)

TryFindPackage(e) == e.main.found \/ e.types.found

Raised == [raised |-> TRUE, files |-> <<>>]
Returned(fs) == [raised |-> FALSE, files |-> fs]

\* One manifest block: resolve the manifest, read and parse it, push the
\* declaration entry point.  It raises when the manifest does not resolve,
\* cannot be read or parsed, or names its types by something path.join rejects.
ManifestTypes(dir, m) ==
    IF ~m.found \/ ~m.readable THEN Raised
    ELSE IF m.types.truthy
         THEN IF m.types.string THEN Returned(<<PathJoin(dir, m.types.rel)>>) ELSE Raised
    ELSE IF m.typings.truthy
         THEN IF m.typings.string THEN Returned(<<PathJoin(dir, m.typings.rel)>>) ELSE Raised
    ELSE IF m.index THEN Returned(<<PathJoin(dir, <<"index.d.ts">>)>>)
    ELSE Returned(<<>>)

\* a mutant: the outer catch is missing, so a failure of the package's own
\* manifest block leaves resolvePackageTypes as an exception
ResolvePackageTypesNoCatch(name, e) ==
    LET own == ManifestTypes(PackageDir(name), e.main)
        community == ManifestTypes(TypesPackageDir(name), e.types)
    IN  IF own.raised THEN Raised
        ELSE Returned(own.files \o (IF community.raised THEN <<>> ELSE community.files))

\* a mutant: the community package is consulted only when the package's own
\* manifest gave no file
ResolvePackageTypesFirstOnly(name, e) ==
    LET own == ManifestTypes(PackageDir(name), e.main)
        community == ManifestTypes(TypesPackageDir(name), e.types)
    IN  IF ~own.raised /\ own.files # <<>> THEN Returned(own.files)
        ELSE Returned(IF community.raised THEN <<>> ELSE community.files)

ResolvePackageTypes(name, e) ==
    LET own == ManifestTypes(PackageDir(name), e.main)
        community == ManifestTypes(TypesPackageDir(name), e.types)
    IN  IF ~own.raised
        THEN Returned(own.files \o (IF community.raised THEN <<>> ELSE community.files))
        ELSE Returned(IF community.raised THEN <<>> ELSE community.files)

\* the standard-library files getLibFiles discovers
DiscoveredLibFiles(e) ==
    LET names == SelectSeq(e.dir, LAMBDA f : StartsWithLib(f) /\ EndsWithDts(f))
    IN  [i \in 1..Len(names) |-> PathJoin(TsLibDir, <<names[i]>>)]

\* getLibFiles(packageName?): failed when the catch clause ran
GetLibFiles(withPackage, name, e) ==
    IF ~e.tsFound THEN [failed |-> TRUE, files |-> <<>>]
    ELSE IF withPackage /\ name # <<>>
         THEN LET r == ResolvePackageTypes(name, e)
              IN  IF r.raised THEN [failed |-> TRUE, files |-> <<>>]
                  ELSE [failed |-> FALSE, files |-> DiscoveredLibFiles(e) \o r.files]
    ELSE [failed |-> FALSE, files |-> DiscoveredLibFiles(e)]

----------------------------------------------------------------------------
(* ts.createProgram and findSymbolInFile                                    *)

\* program.getSourceFiles(): the root files that exist, each once, in the
\* order of the root names
RECURSIVE Dedupe(_, _)
Dedupe(fs, seen) ==
    IF fs = <<>> THEN <<>>
    ELSE IF Head(fs) \in seen \/ ~FileExists(Head(fs)) THEN Dedupe(Tail(fs), seen)
    ELSE <<Head(fs)>> \o Dedupe(Tail(fs), seen \cup {Head(fs)})

GetSourceFiles(rootNames) == Dedupe(rootNames, {})

\* the loop over declarators or export specifiers: every match assigns
\* currentSymbol, there is no break
RECURSIVE AssignMatches(_, _, _)
AssignMatches(named, first, cur) ==
    IF named = <<>> THEN cur
    ELSE AssignMatches(Tail(named), first,
                       IF Text(Head(named).name) = first THEN Sym(Head(named).sym) ELSE cur)

\* a mutant of visit without the early return: a later match replaces an
\* earlier one
RECURSIVE visitLastWins(_, _, _), visitEachLastWins(_, _, _)
visitLastWins(node, first, cur) ==
    LET c == CASE node.kind \in {"InterfaceDeclaration", "ClassDeclaration", "TypeAliasDeclaration"} ->
                    IF Text(node.name) = first THEN Sym(node.sym) ELSE cur
               [] node.kind \in {"VariableStatement", "ExportDeclaration"} ->
                    AssignMatches(node.decls, first, cur)
               [] node.kind = "ModuleDeclaration" ->
                    IF Text(StripQuotes(node.name)) = first THEN Sym(node.sym) ELSE cur
               [] OTHER -> cur
    IN  visitEachLastWins(node.body, first, c)
visitEachLastWins(nodes, first, cur) ==
    IF nodes = <<>> THEN cur
    ELSE visitEachLastWins(Tail(nodes), first, visitLastWins(Head(nodes), first, cur))

\* visit(node) of findSymbolInFile, with currentSymbol passed through
RECURSIVE visit(_, _, _), forEachChild(_, _, _)
visit(node, first, cur) ==
    IF cur # NoSym THEN cur
    ELSE
    LET c == CASE node.kind \in {"InterfaceDeclaration", "ClassDeclaration", "TypeAliasDeclaration"} ->
                    IF Text(node.name) = first THEN Sym(node.sym) ELSE cur
               [] node.kind = "VariableStatement" ->
                    AssignMatches(node.decls, first, cur)
               [] node.kind = "ModuleDeclaration" ->
                    \* node.body is visited here, and once more below
                    forEachChild(node.body, first,
                                 IF Text(StripQuotes(node.name)) = first THEN Sym(node.sym) ELSE cur)
               [] node.kind = "ExportDeclaration" ->
                    AssignMatches(node.decls, first, cur)
               [] OTHER -> cur
    IN  forEachChild(node.body, first, c)
forEachChild(nodes, first, cur) ==
    IF nodes = <<>> THEN cur
    ELSE forEachChild(Tail(nodes), first, visit(Head(nodes), first, cur))

\* a mutant of the captured variable: it keeps the symbol an earlier run
\* of the resolver left in it
StaleCurrentSymbol == IF previous = <<>> THEN NoSym ELSE previous[1].symbol

\* let currentSymbol: ts.Symbol | undefined, declared at each call of
\* findSymbolInFile: undefined when the traversal starts
CurrentSymbolAtEntry == NoSym

\* visit(sourceFile): the source file node matches nothing itself
VisitSourceFile(f, first) ==
    forEachChild(SourceFileOf(f).statements, first, CurrentSymbolAtEntry)

\* exports.find((e) => e.getName() === first), when the file has a module symbol
ExportFallback(f, first) ==
    IF ~SourceFileOf(f).isModule THEN NoSym
    ELSE LET es == SelectSeq(GetExportsOfModule(f), LAMBDA x : Text(GetName(x)) = first)
         IN  IF es = <<>> THEN NoSym ELSE Head(es)

\* the root of findSymbolInFile: the tree search, then the export list
RootSymbol(f, first) ==
    IF VisitSourceFile(f, first) # NoSym
    THEN [sym |-> VisitSourceFile(f, first), via |-> "visit"]
    ELSE [sym |-> ExportFallback(f, first), via |-> "exports"]

\* a mutant of the descent: a missing property leaves the entity reached so far
RECURSIVE DescendPartial(_, _, _)
DescendPartial(cur, rest, prog) ==
    IF rest = <<>> THEN cur
    ELSE IF DeclOf(cur, prog) = NoDecl THEN NoSym
    ELSE IF GetProperty(cur, Head(rest), prog) = NoSym THEN cur
    ELSE DescendPartial(GetProperty(cur, Head(rest), prog), Tail(rest), prog)

\* for (const part of rest)
RECURSIVE Descend(_, _, _)
Descend(cur, rest, prog) ==
    IF rest = <<>> THEN cur
    ELSE IF DeclOf(cur, prog) = NoDecl THEN NoSym
    ELSE IF GetProperty(cur, Head(rest), prog) = NoSym THEN NoSym
    ELSE Descend(GetProperty(cur, Head(rest), prog), Tail(rest), prog)

FindSymbolInFile(f, segs, prog) ==
    LET root == RootSymbol(f, Head(segs))
    IN  IF root.sym = NoSym THEN [sym |-> NoSym, via |-> "none"]
        ELSE [sym |-> Descend(root.sym, Tail(segs), prog), via |-> root.via]

----------------------------------------------------------------------------
(* Command lines                                                            *)

Roots == {"Foo", "Bar", "fn", "NS", "pkg", "typescript", "example"}
SecondNames == {"Foo", "Bar", "fn", "a", "b"}
MemberNames == {"a", "b"}

\* the segments after the root: a name, then member names
Tails ==
    {<<>>} \cup
    (IF MaxTail = 0 THEN {}
     ELSE {<<Text(n)>> \o [i \in 1..Len(m) |-> Text(m[i])] :
              n \in SecondNames, m \in SeqsUpTo(MemberNames, MaxTail - 1)})

SymbolPaths == {Join(<<Text(r)>> \o t) : r \in Roots, t \in Tails}

\* process.argv.slice(2): no argument, a help flag, the empty string, a path
\* that ends in a dot, or a dotted path
ArgLists ==
    {<<>>, <<Text("-h")>>, <<Text("--help")>>, <<Text("-h"), Text("Foo")>>,
     << <<>> >>, << <<"Foo", Dot>> >>}
    \cup {<<p>> : p \in SymbolPaths}

RootOf(a) == IF a = <<>> THEN <<>> ELSE Head(Split(Head(a)))

\* the exit status: none while the process runs, else <<status>>
NoExit == <<>>

\* what the checker answers about the entity being printed: its doc tags, and
\* a long list of anonymous members, properties or exports of which the one
\* at position hole has no name (interface member) or no declaration
DefaultData == [tags |-> <<>>, doc |-> <<"doc">>, extra |-> 0, hole |-> 0, itemDoc |-> <<>>]

----------------------------------------------------------------------------
(* Output lines                                                             *)

UsageLine == [t |-> "usage"]
LibFailureLine == [t |-> "Failed to find TypeScript lib files:"]
\* `Symbol '${symbolPath}' not found`
NotFoundLine(symbolPath, segs) == [t |-> "not found", path |-> symbolPath]
\* `Error: ${error.message}`
ErrorLine == [t |-> "Error:"]

Lines(out, tag) == SelectSeq(out, LAMBDA l : l.t = tag)

----------------------------------------------------------------------------
(* main and findAndPrintDocs                                                *)

InitCommon ==
    /\ parts = <<>>
    /\ libFiles = <<>>
    /\ searchParts = <<>>
    /\ isPackageQuery = FALSE
    /\ files = <<>>
    /\ packageTypeFiles = <<>>
    /\ idx = 0
    /\ scanned = <<>>
    /\ symbol = NoSym
    /\ via = "none"
    /\ sourceFile = <<>>
    /\ stdout = <<>>
    /\ stderr = <<>>
    /\ exitCode = NoExit
    /\ previous = <<>>

Init ==
    /\ args \in ArgLists
    /\ env \in {e \in Envs(RootOf(args)) : ~e.tsFound => e.dir = <<>>}
    /\ pc = "main"
    /\ data = DefaultData
    /\ InitCommon

\* a mutant of process.exit: the status is lost
ExitZero(code) == pc' = "exited" /\ exitCode' = <<0>>

\* process.exit(code), and the return of main
Exit(code) == pc' = "exited" /\ exitCode' = <<code>>

\* a mutant of main: the help flags are taken for symbol paths
MainWithoutHelp ==
    /\ pc = "main"
    /\ IF args = <<>>
       THEN /\ stdout' = Append(stdout, UsageLine)
            /\ Exit(0)
       ELSE /\ pc' = "load"
            /\ UNCHANGED <<stdout, exitCode>>
    /\ UNCHANGED <<args, env, previous, parts, libFiles, searchParts, isPackageQuery, files,
                   packageTypeFiles, idx, scanned, symbol, via, sourceFile, data, stderr>>

\* main: the usage branch, or on to findAndPrintDocs(args[0])
Main ==
    /\ pc = "main"
    /\ IF args = <<>> \/ args[1] = Text("-h") \/ args[1] = Text("--help")
       THEN /\ stdout' = Append(stdout, UsageLine)
            /\ Exit(0)
       ELSE /\ pc' = "load"
            /\ UNCHANGED <<stdout, exitCode>>
    /\ UNCHANGED <<args, env, previous, parts, libFiles, searchParts, isPackageQuery, files,
                   packageTypeFiles, idx, scanned, symbol, via, sourceFile, data, stderr>>

IsPackageQuery(segs) == Len(segs) = 0

\* findAndPrintDocs up to the universe: split, tryFindPackage, getLibFiles
Load ==
    /\ pc = "load"
    /\ LET ps == Split(args[1])
           rootModule == Head(ps)
           found == TryFindPackage(env)
           lib == GetLibFiles(found, rootModule, env)
       IN  /\ parts' = ps
           /\ libFiles' = lib.files
           /\ searchParts' = IF found THEN Tail(ps) ELSE ps
           /\ isPackageQuery' = IF found THEN IsPackageQuery(Tail(ps)) ELSE FALSE
           /\ stderr' = IF lib.failed THEN Append(stderr, LibFailureLine) ELSE stderr
    /\ pc' = "build"
    /\ UNCHANGED <<args, env, previous, files, packageTypeFiles, idx, scanned, symbol, via,
                   sourceFile, data, stdout, exitCode>>

\* a mutant of the filter: every root file counts as a file of the package
PackageTypeFilesAll(fs) == fs

\* libFiles.filter((f) => !f.includes("/typescript/lib/"))
PackageTypeFiles(fs) == SelectSeq(fs, LAMBDA f : ~IncludesTsLib(f))

\* ts.createProgram, getTypeChecker, packageTypeFiles
Build ==
    /\ pc = "build"
    /\ files' = GetSourceFiles(libFiles)
    /\ packageTypeFiles' = PackageTypeFiles(libFiles)
    /\ idx' = 1
    /\ pc' = "scan"
    /\ UNCHANGED <<args, env, previous, parts, libFiles, searchParts, isPackageQuery, scanned,
                   symbol, via, sourceFile, data, stdout, stderr, exitCode>>

\* a mutant of the loop: it gives up after the first source file
LoopDoneAfterFirst(i, fs) == i > 1 \/ i > Len(fs)

\* the for loop over program.getSourceFiles() has run out
LoopDone(i, fs) == i > Len(fs)

\* a mutant of the test: every source file is taken for a declaration file
EveryFileIsDeclarationFile(f) == TRUE

\* if (sourceFile.isDeclarationFile)
IsDeclarationFile(f) == SourceFileOf(f).isDeclarationFile

\* one iteration of the loop over the source files
ScanFile ==
    /\ pc = "scan"
    /\ ~LoopDone(idx, files)
    /\ LET f == files[idx]
           r == FindSymbolInFile(f, searchParts, files)
       IN  IF ~IsDeclarationFile(f)
           THEN /\ idx' = idx + 1
                /\ UNCHANGED <<pc, scanned, symbol, via, sourceFile>>
           ELSE IF isPackageQuery /\ Contains(packageTypeFiles, f)
           THEN /\ pc' = "exports"
                /\ sourceFile' = f
                /\ UNCHANGED <<idx, scanned, symbol, via>>
           ELSE IF ~isPackageQuery
           THEN /\ scanned' = Append(scanned, f)
                /\ IF r.sym # NoSym
                   THEN /\ symbol' = r.sym
                        /\ via' = r.via
                        /\ sourceFile' = f
                        /\ pc' = "header"
                        /\ UNCHANGED idx
                   ELSE /\ idx' = idx + 1
                        /\ UNCHANGED <<pc, symbol, via, sourceFile>>
           ELSE /\ idx' = idx + 1
                /\ UNCHANGED <<pc, scanned, symbol, via, sourceFile>>
    /\ UNCHANGED <<args, env, previous, parts, libFiles, searchParts, isPackageQuery, files,
                   packageTypeFiles, data, stdout, stderr, exitCode>>

\* console.error(`Symbol '${symbolPath}' not found`); process.exit(1)
NotFound ==
    /\ pc = "scan"
    /\ LoopDone(idx, files)
    /\ stderr' = Append(stderr, NotFoundLine(args[1], searchParts))
    /\ Exit(1)
    /\ UNCHANGED <<args, env, previous, parts, libFiles, searchParts, isPackageQuery, files,
                   packageTypeFiles, idx, scanned, symbol, via, sourceFile, data, stdout>>

----------------------------------------------------------------------------
(* getSymbolKind, doc tags, display parts                                   *)

GetSymbolKind(decl) ==
    CASE decl.kind = "InterfaceDeclaration" -> "interface"
      [] decl.kind = "ClassDeclaration" -> "class"
      [] decl.kind = "TypeAliasDeclaration" -> "type alias"
      [] decl.kind = "FunctionDeclaration" -> "function"
      [] decl.kind \in {"MethodDeclaration", "MethodSignature"} -> "method"
      [] decl.kind \in {"PropertyDeclaration", "PropertySignature"} -> "property"
      [] decl.kind = "VariableDeclaration" -> "variable"
      [] decl.kind = "EnumDeclaration" -> "enum"
      [] decl.kind = "ModuleDeclaration" -> "module"
      [] OTHER -> "symbol"

\* ts.displayPartsToString: the texts of the parts, joined
DisplayPartsToString(ps) == Flatten(ps)

Tag(n, ps) == [name |-> n, text |-> ps]

TagNames ==
    {"deprecated", "since", "throws", "exception", "example", "see",
     "param", "returns", "return", "template", "internal"}

\* tag texts: none, one empty part, two parts
TagTexts == { <<>>, << <<>> >>, << <<"use">>, <<" ", "other">> >> }

WithName(tags, names) == SelectSeq(tags, LAMBDA g : g.name \in names)

\* a mutant of the lookup of the deprecated tag: it looks for the wrong name
FindDeprecatedWrongName(tags) == WithName(tags, {"since"})

\* jsdocTags.find((tag) => tag.name === "deprecated"), as a list of 0 or 1 tag
FindDeprecated(tags) == Take(WithName(tags, {"deprecated"}), 1)

\* `\nDEPRECATED${deprecatedText ? `: ${deprecatedText}` : ""}`
DeprecatedLine(g) ==
    LET txt == DisplayPartsToString(g.text)
    IN  [t |-> "DEPRECATED", text |-> IF txt # <<>> THEN <<":", " ">> \o txt ELSE <<>>]

TextLine(tag, g) == [t |-> tag, text |-> DisplayPartsToString(g.text)]

\* a mutant of the filter of the other tags: the tags of the signatures are
\* not left out
OtherTagNamesWithSignatureTags ==
    TagNames \ {"deprecated", "example", "see", "since", "throws", "exception"}

OtherTagNames ==
    TagNames \ {"deprecated", "example", "see", "since", "throws", "exception",
                "param", "returns", "return", "template"}

\* `  @${tag.name}${tagText ? ` ${tagText}` : ""}`
OtherTagLine(g) ==
    LET txt == DisplayPartsToString(g.text)
    IN  [t |-> "tag", name |-> g.name, text |-> IF txt # <<>> THEN <<" ">> \o txt ELSE <<>>]

Section(header, ls) == IF ls = <<>> THEN <<>> ELSE <<[t |-> header]>> \o ls

\* lines 530 to 603 of printSymbolDocs: what the doc tags and the doc comment print
TagLines(tags, doc) ==
    LET deprecated == FindDeprecated(tags)
        since == Take(WithName(tags, {"since"}), 1)
        throws == WithName(tags, {"throws", "exception"})
        examples == WithName(tags, {"example"})
        sees == WithName(tags, {"see"})
        others == WithName(tags, OtherTagNames)
    IN  [i \in 1..Len(deprecated) |-> DeprecatedLine(deprecated[i])]
        \o [i \in 1..Len(since) |-> TextLine("Since:", since[i])]
        \o (IF doc # <<>> THEN <<[t |-> "Description:", text |-> doc]>> ELSE <<>>)
        \o Section("Throws:", [i \in 1..Len(throws) |-> TextLine("throws", throws[i])])
        \o (IF examples = <<>> THEN <<>>
            ELSE <<[t |-> "Examples:"]>>
                 \o SelectSeq([i \in 1..Len(examples) |-> TextLine("example", examples[i])],
                              LAMBDA l : l.text # <<>>))
        \o Section("See also:", [i \in 1..Len(sees) |-> TextLine("see", sees[i])])
        \o Section("Tags:", [i \in 1..Len(others) |-> OtherTagLine(others[i])])

----------------------------------------------------------------------------
(* Member and export lists                                                  *)

MemberCap == 20
ExportCap == 50
DocCap == 80

\* A documentation comment as a string: a sequence of pieces, each a run of n
\* characters other than line breaks and backslashes, a line break, or the
\* two characters backslash and n.
Chars(n) == [k |-> "text", n |-> n]
Newline == [k |-> "nl", n |-> 1]
BackslashN == [k |-> "bsn", n |-> 2]
Ellipsis == [k |-> "...", n |-> 3]

\* str.length
RECURSIVE StrLen(_)
StrLen(str) == IF str = <<>> THEN 0 ELSE Head(str).n + StrLen(Tail(str))

\* str.split(sep)[0], sep a line break ("nl") or backslash and n ("bsn")
RECURSIVE SplitFirst(_, _)
SplitFirst(str, sep) ==
    IF str = <<>> \/ Head(str).k = sep THEN <<>>
    ELSE <<Head(str)>> \o SplitFirst(Tail(str), sep)

\* str.slice(0, n)
RECURSIVE Slice(_, _)
Slice(str, n) ==
    IF str = <<>> \/ n = 0 THEN <<>>
    ELSE IF Head(str).n <= n THEN <<Head(str)>> \o Slice(Tail(str), n - Head(str).n)
    ELSE IF Head(str).k = "text" THEN <<Chars(n)>>
    ELSE <<[k |-> "cut", n |-> n]>>

\* exp.getDocumentationComment, prop.getDocumentationComment, as a string
ItemDoc(item) == data.itemDoc

\* shortDoc of printModuleExports
ShortDoc(doc) ==
    IF doc # <<>>
    THEN Slice(SplitFirst(doc, "nl"), DocCap)
         \o (IF StrLen(doc) > DocCap THEN <<Ellipsis>> ELSE <<>>)
    ELSE <<>>

\* if (shortDoc) console.log(`    ${shortDoc}`)
ExportDocLines(item) ==
    IF ShortDoc(ItemDoc(item)) # <<>>
    THEN <<[t |-> "export doc", text |-> ShortDoc(ItemDoc(item))]>>
    ELSE <<>>

\* propDoc.split("\n")[0]: up to the first line break
PropDoc(doc) == SplitFirst(doc, "nl")

\* memberDoc.split("\\n")[0]: up to the first backslash followed by n
MemberDoc(doc) == SplitFirst(doc, "bsn")

\* if (propDoc) console.log(`    ${propDoc.split("\n")[0]}`)
PropDocLines(item) ==
    IF ItemDoc(item) # <<>>
    THEN <<[t |-> "member doc", text |-> PropDoc(ItemDoc(item))]>>
    ELSE <<>>

\* if (memberDoc) console.log(`    ${memberDoc.split("\\n")[0]}`)
MemberDocLines(item) ==
    IF ItemDoc(item) # <<>>
    THEN <<[t |-> "member doc", text |-> MemberDoc(ItemDoc(item))]>>
    ELSE <<>>

\* the anonymous tail of a long list
Fillers(key, extra) == [i \in 1..extra |-> Filler(key, i)]

\* the declaration of a listed property or export
ItemDecl(item, prog, hole) ==
    IF item.n = 0 THEN DeclOf(item, prog)
    ELSE IF item.n = hole THEN NoDecl
    ELSE Decl("PropertySignature", <<>>, 0, <<>>)

MoreLine(n) == [t |-> "more", n |-> n]

\* a mutant of the property list: one entry more than the cap is printed
PropertyLinesOffByOne(props, prog, hole) ==
    IF props = <<>> THEN <<>>
    ELSE <<[t |-> "Members:"]>>
         \o [i \in 1..Len(Take(props, MemberCap + 1)) |-> [t |-> "member", item |-> props[i]]]
         \o (IF Len(props) > MemberCap THEN <<MoreLine(Len(props) - MemberCap)>> ELSE <<>>)

\* lines 662 to 716: type.getProperties(), cut to 20, then the count of the rest
PropertyLines(props, prog, hole) ==
    IF props = <<>> THEN <<>>
    ELSE LET shown == SelectSeq(Take(props, MemberCap),
                                LAMBDA q : ItemDecl(q, prog, hole) # NoDecl)
         IN  <<[t |-> "Members:"]>>
             \o Flatten([i \in 1..Len(shown) |->
                            <<[t |-> "member", item |-> shown[i]]>> \o PropDocLines(shown[i])])
             \o (IF Len(props) > MemberCap THEN <<MoreLine(Len(props) - MemberCap)>>
                 ELSE <<>>)

\* decl.members of an interface declaration: the members of the table, then
\* anonymous ones, of which the one at hole has no name
InterfaceMembers(decl, key, extra, hole) ==
    [i \in 1..Len(decl.members) |-> [key |-> decl.members[i], n |-> 0]]
    \o [i \in 1..extra |-> [key |-> IF i = hole THEN "" ELSE key, n |-> i]]

\* lines 606 to 660: every named member of the interface declaration
InterfaceMemberLines(members) ==
    LET named == SelectSeq(members, LAMBDA m : m.key # "")
    IN  <<[t |-> "Members:"]>>
        \o Flatten([i \in 1..Len(named) |->
                       <<[t |-> "member", item |-> named[i]]>> \o MemberDocLines(named[i])])

\* lines 316 to 353 of printModuleExports
ExportLines(exports, prog, hole) ==
    IF exports = <<>> THEN <<>>
    ELSE LET shown == SelectSeq(Take(exports, ExportCap),
                                LAMBDA q : ItemDecl(q, prog, hole) # NoDecl)
         IN  <<[t |-> "Exports", n |-> Len(exports)]>>
             \o Flatten([i \in 1..Len(shown) |->
                            <<[t |-> "export", item |-> shown[i],
                               kind |-> GetSymbolKind(ItemDecl(shown[i], prog, hole))]>>
                            \o ExportDocLines(shown[i])])
             \o (IF Len(exports) > ExportCap THEN <<MoreLine(Len(exports) - ExportCap)>>
                 ELSE <<>>)
             \o <<[t |-> "Tip:"]>>

----------------------------------------------------------------------------
(* printModuleExports                                                       *)

\* lines 305 to 308: the heading of the listing, printed before any query
PrintPackageHeader ==
    /\ pc = "exports"
    /\ stdout' = stdout \o << [t |-> "name", v |-> Head(parts)],
                             [t |-> "Kind:", v |-> "package"],
                             [t |-> "Location:", file |-> sourceFile, line |-> 0] >>
    /\ pc' = "exportList"
    /\ UNCHANGED <<args, env, previous, parts, libFiles, searchParts, isPackageQuery, files,
                   packageTypeFiles, idx, scanned, symbol, via, sourceFile, data,
                   stderr, exitCode>>

\* lines 310 to 353, then the return through findAndPrintDocs and main
PrintExports ==
    /\ pc = "exportList"
    /\ stdout' = stdout \o
          (IF ~SourceFileOf(sourceFile).isModule THEN <<[t |-> "No exports found"]>>
           ELSE ExportLines(GetExportsOfModule(sourceFile) \o Fillers("export", data.extra),
                            files, data.hole))
    /\ Exit(0)
    /\ UNCHANGED <<args, env, previous, parts, libFiles, searchParts, isPackageQuery, files,
                   packageTypeFiles, idx, scanned, symbol, via, sourceFile, data, stderr>>

----------------------------------------------------------------------------
(* printSymbolDocs                                                          *)

\* lines 361 to 374: without a declaration the function returns having
\* printed nothing; else name, kind and location
PrintHeader ==
    /\ pc = "header"
    /\ LET decl == DeclOf(symbol, files)
       IN  IF decl = NoDecl
           THEN /\ Exit(0)
                /\ UNCHANGED stdout
           ELSE /\ stdout' = stdout \o
                       << [t |-> "name", v |-> Text(GetName(symbol))],
                          [t |-> "Kind:", v |-> GetSymbolKind(decl)],
                          [t |-> "Location:", file |-> sourceFile,
                           line |-> LineOfPosition(sourceFile, decl.pos) + 1] >>
                /\ pc' = "signatures"
                /\ UNCHANGED exitCode
    /\ UNCHANGED <<args, env, previous, parts, libFiles, searchParts, isPackageQuery, files,
                   packageTypeFiles, idx, scanned, symbol, via, sourceFile, data, stderr>>

\* lines 376 to 528: construct signatures, call signatures, or the type
SignatureLines(sym, decl) ==
    LET info == SymbolInfo(sym.key)
    IN  (IF info.ctors > 0 THEN <<[t |-> "Constructor Signatures:", n |-> info.ctors]>> ELSE <<>>)
        \o (IF info.calls > 0 THEN <<[t |-> "Call Signatures:", n |-> info.calls]>> ELSE <<>>)
        \o (IF info.calls = 0 /\ info.ctors = 0 /\ decl.kind # "InterfaceDeclaration"
            THEN <<[t |-> "Type:", alias |-> decl.kind = "TypeAliasDeclaration"]>>
            ELSE <<>>)

PrintSignatures ==
    /\ pc = "signatures"
    /\ stdout' = stdout \o SignatureLines(symbol, DeclOf(symbol, files))
    /\ pc' = "tags"
    /\ UNCHANGED <<args, env, previous, parts, libFiles, searchParts, isPackageQuery, files,
                   packageTypeFiles, idx, scanned, symbol, via, sourceFile, data,
                   stderr, exitCode>>

PrintTags ==
    /\ pc = "tags"
    /\ stdout' = stdout \o TagLines(data.tags, data.doc)
    /\ pc' = "members"
    /\ UNCHANGED <<args, env, previous, parts, libFiles, searchParts, isPackageQuery, files,
                   packageTypeFiles, idx, scanned, symbol, via, sourceFile, data,
                   stderr, exitCode>>

\* lines 605 to 717, then the return through findAndPrintDocs and main
PrintMembers ==
    /\ pc = "members"
    /\ LET decl == DeclOf(symbol, files)
       IN  stdout' = stdout \o
             (IF decl.kind = "InterfaceDeclaration"
              THEN InterfaceMemberLines(InterfaceMembers(decl, symbol.key, data.extra, data.hole))
              ELSE PropertyLines(GetProperties(symbol, files) \o Fillers(symbol.key, data.extra),
                                 files, data.hole))
    /\ Exit(0)
    /\ UNCHANGED <<args, env, previous, parts, libFiles, searchParts, isPackageQuery, files,
                   packageTypeFiles, idx, scanned, symbol, via, sourceFile, data, stderr>>

----------------------------------------------------------------------------
(* Exceptions                                                               *)

\* the positions at which a call into the compiler can raise: createProgram,
\* the checker's queries of findSymbolInFile, of printModuleExports and of
\* printSymbolDocs
FaultPoints == {"build", "scan", "exportList", "header", "signatures", "members"}

\* the catch clause of main: console.error(`Error: ...`); process.exit(1)
InternalFault ==
    /\ pc \in FaultPoints
    /\ stderr' = Append(stderr, ErrorLine)
    /\ Exit(1)
    /\ UNCHANGED <<args, env, previous, parts, libFiles, searchParts, isPackageQuery, files,
                   packageTypeFiles, idx, scanned, symbol, via, sourceFile, data, stdout>>

----------------------------------------------------------------------------
(* The program                                                              *)

Next ==
    \/ Main
    \/ Load
    \/ Build
    \/ ScanFile
    \/ NotFound
    \/ PrintPackageHeader
    \/ PrintExports
    \/ PrintHeader
    \/ PrintSignatures
    \/ PrintTags
    \/ PrintMembers
    \/ InternalFault

Spec == Init /\ [][Next]_vars


----------------------------------------------------------------------------
(* The printers under rich answers of the checker: the same program, run on *)
(* a few command lines, with every list of doc tags and every length of     *)
(* member or export list of the bounds.                                     *)

DescribeTags ==
    {Tag(n, t) : n \in TagNames, t \in {<<>>, << <<"use">>, <<" ", "other">> >>}}
    \cup {Tag("deprecated", << <<>> >>)}

\* lengths around a cap: the lists of the tables hold at most 4 entries
Extras(cap) == {0} \cup ((cap - MaxOver - 4)..(cap + MaxOver))

TagData ==
    [tags : SeqsUpTo(DescribeTags, MaxTags), doc : {<<"doc">>}, extra : {0}, hole : {0},
     itemDoc : {<<>>}]

ListData ==
    {d \in [tags : {<<>>}, doc : {<<>>},
            extra : Extras(MemberCap) \cup Extras(ExportCap),
            hole : 0..(ExportCap + MaxOver),
            itemDoc : {<<>>}] :
        d.hole \in {0, 1, d.extra}}

\* documentation comments of the listed members and exports: one line or two,
\* of lengths around the excerpt's budget, and with the two characters
\* backslash and n inside a line
DocLengths == {1, DocCap - 1, DocCap, DocCap + 1, DocCap + MaxOver}

Docs ==
    {<<Chars(a)>> : a \in DocLengths}
    \cup {<<Chars(a), Newline, Chars(b)>> : a \in DocLengths, b \in DocLengths}
    \cup { <<Chars(1), BackslashN, Chars(1)>>,
           <<Chars(1), BackslashN, Chars(1), Newline, Chars(1)>> }

DocData == [tags : {<<>>}, doc : {<<>>}, extra : {0}, hole : {0}, itemDoc : Docs]

DescribeEnvs(root) ==
    {e \in Envs(root) :
        /\ e.tsFound
        /\ e.dir \in {<<"lib.a.d.ts", "lib.b.d.ts">>, <<"lib.b.d.ts">>}
        /\ e.main.found => e.main.readable /\ e.main.types.string
        /\ e.types.found => e.types.readable /\ e.types.types.truthy}

TagArgs == {<<Join(<<Text("Foo")>>)>>, <<Join(<<Text("Foo"), Text("a")>>)>>}

ListArgs ==
    {<<Join(p)>> : p \in { <<Text("Foo")>>, <<Text("Bar")>>, <<Text("NS")>>, <<Text("fn")>>,
                          <<Text("NS"), Text("Foo")>>,
                          <<Text("pkg")>>, <<Text("pkg"), Text("Bar")>>,
                          <<Text("pkg"), Text("fn")>> }}

InitDescribe ==
    /\ \/ args \in TagArgs /\ data \in TagData
       \/ args \in ListArgs /\ data \in ListData
       \/ args \in ListArgs /\ data \in DocData
    /\ env \in DescribeEnvs(RootOf(args))
    /\ pc = "main"
    /\ InitCommon

SpecDescribe == InitDescribe /\ [][Next]_vars

----------------------------------------------------------------------------
(* Termination: the program is one thread of control, so a step that can be *)
(* taken is taken.  One command line of each kind, on file systems where    *)
(* the compiler resolves and the package has a declaration file.            *)

FairArgs ==
    {<<>>, <<Text("--help")>>}
    \cup {<<Join(p)>> : p \in { <<Text("Foo")>>, <<Text("fn")>>,
                                <<Text("Foo"), Text("a")>>, <<Text("Foo"), Text("b")>>,
                                <<Text("pkg")>>, <<Text("pkg"), Text("Bar")>> }}

FairEnvs(root) ==
    {e \in DescribeEnvs(root) :
        /\ e.types = Absent
        /\ e.main.found => (e.main.types.truthy /\ e.main.typings.truthy)
        /\ ~e.local}

InitFair ==
    /\ args \in FairArgs
    /\ env \in FairEnvs(RootOf(args))
    /\ pc = "main"
    /\ data = DefaultData
    /\ InitCommon

SpecFair == InitFair /\ [][Next]_vars /\ WF_vars(Next)

----------------------------------------------------------------------------
(* Two runs on the same command line, file system and checker answers: the  *)
(* program is started again once it has exited, and the outcome of the      *)
(* first run is kept aside for comparison.                                  *)

Outcome == [stdout |-> stdout, stderr |-> stderr, exitCode |-> exitCode, symbol |-> symbol]

\* a second start of main on the same process.argv: every local of main and
\* findAndPrintDocs is declared anew
Rerun ==
    /\ pc = "exited"
    /\ previous = <<>>
    /\ previous' = <<Outcome>>
    /\ pc' = "main"
    /\ parts' = <<>>
    /\ libFiles' = <<>>
    /\ searchParts' = <<>>
    /\ isPackageQuery' = FALSE
    /\ files' = <<>>
    /\ packageTypeFiles' = <<>>
    /\ idx' = 0
    /\ scanned' = <<>>
    /\ symbol' = NoSym
    /\ via' = "none"
    /\ sourceFile' = <<>>
    /\ stdout' = <<>>
    /\ stderr' = <<>>
    /\ exitCode' = NoExit
    /\ UNCHANGED <<args, env, data>>

NextTwice ==
    \/ Next
    \/ Rerun

SpecTwice == Init /\ [][NextTwice]_vars

----------------------------------------------------------------------------
(* Vocabulary of the properties                                             *)

Exited == pc = "exited"
Faulted == Lines(stderr, "Error:") # <<>>
NotFoundReported == Lines(stderr, "not found") # <<>>
Loaded == pc \notin {"main", "load"} /\ parts # <<>>
Built == Loaded /\ pc # "build" /\ idx >= 1

\* the headings of symbol descriptions and of export listings on stdout
Descriptions == SelectSeq(stdout, LAMBDA l : l.t = "Kind:" /\ l.v # "package")
Listings == SelectSeq(stdout, LAMBDA l : l.t = "Kind:" /\ l.v = "package")

IsDecl(f) == SourceFileOf(f).isDeclarationFile

\* the nodes of a list of statements in depth-first, declared order
RECURSIVE Preorder(_)
Preorder(nodes) ==
    IF nodes = <<>> THEN <<>>
    ELSE <<Head(nodes)>> \o Preorder(Head(nodes).body) \o Preorder(Tail(nodes))

\* the symbols a node declares under the name seg, in the node kinds the tree
\* search looks at
NodeMatches(node, seg) ==
    CASE node.kind \in {"InterfaceDeclaration", "ClassDeclaration", "TypeAliasDeclaration"} ->
           IF Text(node.name) = seg THEN {Sym(node.sym)} ELSE {}
      [] node.kind \in {"VariableStatement", "ExportDeclaration"} ->
           {Sym(node.decls[i].sym) : i \in {j \in 1..Len(node.decls) : Text(node.decls[j].name) = seg}}
      [] node.kind = "ModuleDeclaration" ->
           IF Text(StripQuotes(node.name)) = seg THEN {Sym(node.sym)} ELSE {}
      [] OTHER -> {}

MatchingNodes(f, seg) ==
    SelectSeq(Preorder(SourceFileOf(f).statements), LAMBDA n : NodeMatches(n, seg) # {})

\* the root symbols a file offers for seg: those of its first matching node,
\* else the exports of that name
RootCandidates(f, seg) ==
    IF MatchingNodes(f, seg) # <<>> THEN NodeMatches(Head(MatchingNodes(f, seg)), seg)
    ELSE IF SourceFileOf(f).isModule
         THEN {Sym(k) : k \in {x \in Range(SourceFileOf(f).exports) : Text(SymbolInfo(x).name) = seg}}
    ELSE {}

\* the symbols reached from the symbols of S along the member names of rest
RECURSIVE Reach(_, _, _)
Reach(S, rest, prog) ==
    IF rest = <<>> THEN S
    ELSE Reach({Sym(k) : k \in UNION {
                   {x \in {q.key : q \in Range(GetProperties(s, prog))} :
                       Text(SymbolInfo(x).name) = Head(rest)} :
                   s \in {q \in S : Declarations(q, prog) # <<>>}}},
               Tail(rest), prog)

\* the entities the whole path reaches in file f
Resolved(f, segs, prog) == Reach(RootCandidates(f, Head(segs)), Tail(segs), prog)

\* the positions of the declaration files in which the path resolves
ResolvingFiles(segs, prog) ==
    {i \in 1..Len(prog) : IsDecl(prog[i]) /\ Resolved(prog[i], segs, prog) # {}}

\* the positions of the declaration files whose root search matches
RootFiles(seg, prog) ==
    {i \in 1..Len(prog) : IsDecl(prog[i]) /\ RootCandidates(prog[i], seg) # {}}

Min(S) == CHOOSE x \in S : \A y \in S : x <= y

\* a run of the resolver that ended without an exception
SymbolRunEnded == Exited /\ ~Faulted /\ Built /\ ~isPackageQuery

----------------------------------------------------------------------------
(* C1                                                                       *)

\* C1 as stated: for a path of at least 2 segments, if in the first
\* declaration file whose root search matches segments[0] some segment's type
\* lacks the next segment, the run ends in NotFound with exit status 1 and
\* prints no description; no later file turns it into a success.
C1_DescentFailureEndsResolution ==
    (/\ SymbolRunEnded
     /\ Len(searchParts) >= 2
     /\ RootFiles(Head(searchParts), files) # {}
     /\ Resolved(files[Min(RootFiles(Head(searchParts), files))], searchParts, files) = {})
    => (NotFoundReported /\ exitCode = <<1>> /\ stdout = <<>>)

\* C1 amended: a descent failure ends the search of that file only.  If the
\* root search or the descent fails in every declaration file, the run ends
\* in NotFound with exit status 1 and nothing on stdout; otherwise the symbol
\* handed to the printer is the one the whole path reaches in the first
\* declaration file in which root search and descent both succeed, never an
\* intermediate entity.
C1_DescentFailureSkipsFile ==
    (SymbolRunEnded /\ Len(searchParts) >= 2)
    => IF ResolvingFiles(searchParts, files) = {}
       THEN NotFoundReported /\ exitCode = <<1>> /\ stdout = <<>> /\ symbol = NoSym
       ELSE /\ ~NotFoundReported
            /\ sourceFile = files[Min(ResolvingFiles(searchParts, files))]
            /\ symbol \in Resolved(sourceFile, searchParts, files)

\* a descent failed in the first file whose root matches, and a later file
\* gave the description
C1_Witness ==
    /\ SymbolRunEnded
    /\ Len(searchParts) >= 2
    /\ RootFiles(Head(searchParts), files) # {}
    /\ Resolved(files[Min(RootFiles(Head(searchParts), files))], searchParts, files) = {}
    /\ Descriptions # <<>>
    /\ exitCode = <<0>>

----------------------------------------------------------------------------
(* C2                                                                       *)

\* the names a file declares at top level as interface, class, type alias,
\* function or variable
TopLevelNames(f) ==
    UNION {
        IF n.kind \in {"InterfaceDeclaration", "ClassDeclaration", "TypeAliasDeclaration",
                       "FunctionDeclaration"}
        THEN {Text(n.name)}
        ELSE IF n.kind = "VariableStatement"
        THEN {Text(n.decls[i].name) : i \in 1..Len(n.decls)}
        ELSE {} : n \in Range(SourceFileOf(f).statements)}

DeclaredTopLevel(prog) ==
    UNION {TopLevelNames(f) : f \in {g \in Range(prog) : IsDecl(g)}}

\* C2 as stated: whenever the root segment names a top-level interface, class,
\* type alias, function or variable declared anywhere in the universe, the
\* symbol is found by the tree search and never through the export list.
C2_DeclarationBeforeExports ==
    (/\ SymbolRunEnded
     /\ Len(searchParts) = 1
     /\ Head(searchParts) \in DeclaredTopLevel(files))
    => (symbol # NoSym /\ via = "visit" /\ ~NotFoundReported)

----------------------------------------------------------------------------
(* C3                                                                       *)

IsStdLib(f) ==
    /\ Len(f) = Len(TsLibDir) + 1
    /\ SubSeq(f, 1, Len(TsLibDir)) = TsLibDir
    /\ StartsWithLib(f[Len(f)])
    /\ EndsWithDts(f[Len(f)])

\* the relative order of the elements of s that are in t is their order in t
OrderedAs(s, t) ==
    \A i, j \in 1..Len(s) :
        (i < j /\ Contains(t, s[i]) /\ Contains(t, s[j])) => IndexOf(t, s[i]) < IndexOf(t, s[j])

----------------------------------------------------------------------------
(* C4                                                                       *)

\* C4: NotFound is reported only when the loop over the program's files has
\* run out -- every declaration file was searched and in each the root search,
\* the export list or the descent failed; for the listing of a package, no
\* declaration file of the program is one of the package's files -- and then
\* once: a single line on stderr that carries the complete argument, exit
\* status 1, nothing on stdout.
C4_NotFoundIsLast ==
    /\ Len(Lines(stderr, "not found")) <= 1
    /\ NotFoundReported =>
          /\ Exited
          /\ idx = Len(files) + 1
          /\ Lines(stderr, "not found")[1].path = args[1]
          /\ stderr[Len(stderr)].t = "not found"
          /\ exitCode = <<1>>
          /\ stdout = <<>>
          /\ ~Faulted
          /\ IF isPackageQuery
             THEN \A f \in Range(files) : IsDecl(f) => ~Contains(packageTypeFiles, f)
             ELSE /\ scanned = SelectSeq(files, IsDecl)
                  /\ ResolvingFiles(searchParts, files) = {}

\* NotFound after the search of several declaration files, for a path whose
\* package root was stripped before the search
C4_Witness ==
    /\ NotFoundReported
    /\ Len(scanned) >= 2
    /\ Len(parts) > Len(searchParts)
    /\ Len(searchParts) >= 2
    /\ exitCode = <<1>>

----------------------------------------------------------------------------
(* C5                                                                       *)

MemberEntries == Lines(stdout, "member")
ExportEntries == Lines(stdout, "export")
MoreLines == Lines(stdout, "more")

\* a finished description, a finished listing of a module's exports
DescriptionDone == Exited /\ exitCode = <<0>> /\ Len(Descriptions) = 1
ListingDone ==
    Exited /\ exitCode = <<0>> /\ Len(Listings) = 1 /\ SourceFileOf(sourceFile).isModule

IsInterface == Descriptions[1].v = "interface"

\* the members of the described entity, the exports of the listed module
TotalMembers ==
    IF IsInterface
    THEN Len(DeclOf(symbol, files).members) + data.extra
    ELSE Len(GetProperties(symbol, files)) + data.extra
TotalExports == Len(SourceFileOf(sourceFile).exports) + data.extra

\* the line of the rest: one line with total - cap when the total exceeds the
\* cap, none otherwise
MoreRule(total, cap) ==
    IF total > cap
    THEN Len(MoreLines) = 1 /\ MoreLines[1].n = total - cap
    ELSE MoreLines = <<>>

----------------------------------------------------------------------------
(* C6                                                                       *)

\* the root names a recognized installed package and nothing follows it
PackageRootRun == Exited /\ ~Faulted /\ Built /\ TryFindPackage(env) /\ Len(parts) = 1

PackageDeclarationFiles ==
    {i \in 1..Len(files) :
        /\ IsDecl(files[i])
        /\ ~IsStdLib(files[i])
        /\ ~IncludesTsLib(files[i])
        /\ \/ files[i] \in Range(ManifestTypes(PackageDir(Head(parts)), env.main).files)
           \/ files[i] \in Range(ManifestTypes(TypesPackageDir(Head(parts)), env.types).files)}

----------------------------------------------------------------------------
(* C7                                                                       *)

\* C7 as stated: when the root names a local module (./example.ts exists),
\* is no recognized package and is not found in the universe, and nothing
\* follows it, the export listing of the module is printed: greet (function),
\* Person (interface), add (variable), Config (type alias).
C7_LocalModuleListing ==
    (/\ Exited /\ ~Faulted /\ Built
     /\ parts = <<Text("example")>>
     /\ env.local
     /\ env.tsFound
     /\ files # <<>>
     /\ ~TryFindPackage(env)
     /\ ResolvingFiles(parts, files) = {})
    => /\ Len(Listings) = 1
       /\ [i \in 1..Len(ExportEntries) |->
              <<SymbolInfo(ExportEntries[i].item.key).name, ExportEntries[i].kind>>]
          = << <<"greet", "function">>, <<"Person", "interface">>,
               <<"add", "variable">>, <<"Config", "type alias">> >>
       /\ ~NotFoundReported

----------------------------------------------------------------------------
(* C8                                                                       *)

\* a manifest block of resolvePackageTypes that ends in an exception
BlockFails(m) ==
    \/ ~m.found
    \/ ~m.readable
    \/ m.types.truthy /\ ~m.types.string
    \/ ~m.types.truthy /\ m.typings.truthy /\ ~m.typings.string

\* C8: getLibFiles never raises and never drops the standard library because
\* of the package: whenever the compiler is found, the universe holds every
\* lib.*.d.ts of its lib directory and no failure is reported, whatever
\* the state of the package; a package of which both manifest blocks fail
\* only adds no file.
C8_PackageFailureKeepsStdlib ==
    Loaded =>
        /\ env.tsFound =>
              /\ \A n \in Range(env.dir) :
                    (StartsWithLib(n) /\ EndsWithDts(n)) => Contains(libFiles, TsLibDir \o <<n>>)
              /\ Lines(stderr, LibFailureLine.t) = <<>>
        /\ (BlockFails(env.main) /\ BlockFails(env.types)) =>
              SelectSeq(libFiles, LAMBDA f : ~IsStdLib(f)) = <<>>
        /\ pc = "build" => (~Faulted /\ exitCode = NoExit)

\* a recognized package both of whose manifest blocks fail, and the standard
\* library as the whole universe
C8_Witness ==
    /\ pc = "build"
    /\ TryFindPackage(env)
    /\ BlockFails(env.main)
    /\ BlockFails(env.types)
    /\ Len(libFiles) = 2
    /\ \A i \in 1..Len(libFiles) : IsStdLib(libFiles[i])

----------------------------------------------------------------------------
(* C9                                                                       *)

\* C9 as stated: an exception anywhere during load, build, resolve or extract
\* is caught once at top level and reported as one Error line with exit
\* status 1; when it is raised during extraction nothing of the description
\* is on stdout.
C9_FaultPrintsNothing ==
    Faulted =>
        /\ Len(Lines(stderr, "Error:")) = 1
        /\ exitCode = <<1>>
        /\ stdout = <<>>

----------------------------------------------------------------------------
(* C10                                                                      *)

DeprecatedLines == Lines(stdout, "DEPRECATED")
DeprecatedTags == {i \in 1..Len(data.tags) : data.tags[i].name = "deprecated"}

\* C10: a finished description carries the DEPRECATED marker exactly when
\* the entity's doc tags hold a tag named deprecated; the marker is printed
\* once, followed by ': ' and the unchanged text of the first such tag, or
\* bare when that tag has no text.
C10_DeprecatedMarker ==
    DescriptionDone =>
        /\ DeprecatedLines # <<>> <=> DeprecatedTags # {}
        /\ Len(DeprecatedLines) <= 1
        /\ DeprecatedTags # {} =>
              LET g == data.tags[Min(DeprecatedTags)]
              IN  DeprecatedLines[1].text =
                     CASE g.text = <<>> -> <<>>
                       [] g.text = << <<>> >> -> <<>>
                       [] g.text = << <<"use">>, <<" ", "other">> >> ->
                            <<":", " ", "use", " ", "other">>

\* a description with the marker and the text of a deprecated tag that is
\* not the first tag of the entity
C10_Witness ==
    /\ DescriptionDone
    /\ Len(data.tags) = 2
    /\ data.tags[1].name = "since"
    /\ data.tags[2].name = "deprecated"
    /\ Len(DeprecatedLines) = 1
    /\ DeprecatedLines[1].text = <<":", " ", "use", " ", "other">>

----------------------------------------------------------------------------
(* C11                                                                      *)

\* a second run that ended, neither run with an exception
SecondRunEnded ==
    /\ previous # <<>>
    /\ Exited
    /\ ~Faulted
    /\ Lines(previous[1].stderr, "Error:") = <<>>

----------------------------------------------------------------------------
(* C12                                                                      *)

UsageAsked == args = <<>> \/ args[1] = Text("-h") \/ args[1] = Text("--help")

\* C12: with no argument, or with -h or --help as first argument, the run
\* prints the usage text and exits with status 0; it never loads a universe,
\* builds a program or resolves anything, and writes nothing to stderr.
C12_UsageOnly ==
    UsageAsked =>
        /\ pc \in {"main", "exited"}
        /\ parts = <<>>
        /\ libFiles = <<>>
        /\ files = <<>>
        /\ idx = 0
        /\ scanned = <<>>
        /\ symbol = NoSym
        /\ stderr = <<>>
        /\ IF Exited THEN stdout = <<UsageLine>> /\ exitCode = <<0>>
           ELSE stdout = <<>> /\ exitCode = NoExit

\* the usage text after -h, a symbol path following the flag
C12_Witness ==
    /\ Exited
    /\ args = <<Text("-h"), Text("Foo")>>
    /\ stdout = <<UsageLine>>
    /\ exitCode = <<0>>

----------------------------------------------------------------------------
(* C13                                                                      *)

\* the files of the universe after the lib.*.d.ts files of the lib directory
PackageFilesLoaded ==
    SubSeq(libFiles,
           Cardinality({i \in 1..Len(env.dir) :
                           StartsWithLib(env.dir[i]) /\ EndsWithDts(env.dir[i])}) + 1,
           Len(libFiles))

\* what one manifest gives: its types field, else its typings field, else the
\* index.d.ts beside it when it exists; nothing when the block fails
BlockFiles(dir, m) ==
    IF BlockFails(m) THEN <<>>
    ELSE IF m.types.truthy THEN <<PathJoin(dir, m.types.rel)>>
    ELSE IF m.typings.truthy THEN <<PathJoin(dir, m.typings.rel)>>
    ELSE IF m.index THEN <<PathJoin(dir, <<"index.d.ts">>)>>
    ELSE <<>>

OwnFiles == BlockFiles(PackageDir(Head(parts)), env.main)
CommunityFiles == BlockFiles(TypesPackageDir(Head(parts)), env.types)

\* the universe of a recognized package was loaded
PackageLoaded == Loaded /\ env.tsFound /\ TryFindPackage(env)

\* C13 as stated: the strategies are tried in the order types, typings,
\* index.d.ts, @types package, and the files added are those of the first
\* strategy that yields a file; what later strategies would give is discarded.
C13_FirstStrategyOnly ==
    (PackageLoaded /\ ~BlockFails(env.main) /\ ~BlockFails(env.types))
    => PackageFilesLoaded = (IF OwnFiles # <<>> THEN OwnFiles ELSE CommunityFiles)

\* C13 amended: the package's own manifest gives its types field, else its
\* typings field, else the index.d.ts beside it (only when it declares
\* neither field and the file exists); the manifest of the @types package is
\* then read in the same way, whether or not the own manifest gave a file.
\* The files added to the universe are the own file, if any, followed by the
\* @types file, if any; a manifest that cannot be resolved, read or parsed,
\* or whose field is no string, gives no file.
C13_OwnThenCommunity ==
    PackageLoaded =>
        /\ PackageFilesLoaded = OwnFiles \o CommunityFiles
        /\ Len(OwnFiles) <= 1
        /\ Len(CommunityFiles) <= 1
        /\ (env.main.found /\ env.main.readable /\ env.main.types.truthy /\ env.main.types.string)
              => OwnFiles = <<PackageDir(Head(parts)) \o SelectSeq(env.main.types.rel,
                                                                    LAMBDA c : c # ".")>>
        /\ (OwnFiles # <<>> /\ OwnFiles[1] = PackageDir(Head(parts)) \o <<"index.d.ts">>)
              => (~env.main.types.truthy /\ ~env.main.typings.truthy /\ env.main.index)

\* a package whose typings field and whose @types package both gave a file
C13_Witness ==
    /\ PackageLoaded
    /\ ~env.main.types.truthy
    /\ env.main.typings.truthy
    /\ Len(PackageFilesLoaded) = 2
    /\ PackageFilesLoaded[1] = PackageDir(Head(parts)) \o <<"typings.d.ts">>
    /\ PackageFilesLoaded[2] = TypesPackageDir(Head(parts)) \o <<"index.d.ts">>

----------------------------------------------------------------------------
(* C14                                                                      *)

\* the exit status: none while running, 0 or 1 at the end, and 1 exactly
\* when the not-found message or an Error: message was printed
StatusTellsFailure ==
    /\ ~Exited => exitCode = NoExit
    /\ Exited =>
          /\ exitCode \in {<<0>>, <<1>>}
          /\ exitCode = <<1>> <=> (NotFoundReported \/ Faulted)

\* C14 as stated: the status is 0 or 1, it is 1 exactly when the not-found
\* message or an Error: message was printed, and every run on a path that
\* ends with status 0 has printed a description or an export listing.
C14_SuccessAlwaysPrints ==
    /\ StatusTellsFailure
    /\ (Exited /\ exitCode = <<0>> /\ ~UsageAsked)
          => (Descriptions # <<>> \/ Listings # <<>>)

\* C14 amended: every invocation terminates, with exit status 0 or 1; the
\* status is 1 exactly when the not-found message or an Error: message was
\* printed; a run on a path that ends with status 0 has printed one
\* description or one export listing on stdout, except when the resolved
\* symbol has no declaration: then it has printed nothing.
C14_TerminatesWithStatus ==
    /\ <>Exited
    /\ [](/\ StatusTellsFailure
          /\ (Exited /\ exitCode = <<0>> /\ ~UsageAsked)
                => \/ Len(Descriptions) = 1 /\ Listings = <<>>
                   \/ Len(Listings) = 1 /\ Descriptions = <<>>
                   \/ /\ symbol # NoSym
                      /\ Declarations(symbol, files) = <<>>
                      /\ stdout = <<>>)

\* a run that resolved a symbol without declaration: status 0, no output
C14_Witness ==
    /\ Exited
    /\ exitCode = <<0>>
    /\ ~UsageAsked
    /\ symbol # NoSym
    /\ Declarations(symbol, files) = <<>>
    /\ stdout = <<>>
    /\ stderr = <<>>

----------------------------------------------------------------------------
(* C15                                                                      *)

\* C15 as stated: when the root names an installed package and segments
\* follow it, the entity described is declared in a declaration file of the
\* package, never one that exists only in a file of the standard library.
C15_PackagePathStaysInPackage ==
    (/\ Exited /\ ~Faulted /\ Built
     /\ TryFindPackage(env)
     /\ Len(parts) >= 2
     /\ \E i \in 1..Len(files) : IsDecl(files[i]) /\ Contains(packageTypeFiles, files[i])
     /\ Descriptions # <<>>)
    => /\ ~IsStdLib(sourceFile)
       /\ \E i \in 1..Len(Declarations(symbol, files)) :
             ~IsStdLib(Declarations(symbol, files)[i].file)

----------------------------------------------------------------------------
(* C16                                                                      *)

\* the tags of the entity with a name of names, in their order
TagsNamed(names) == SelectSeq(data.tags, LAMBDA g : g.name \in names)

\* the text of a tag as a string
ShownText(g) ==
    CASE g.text = <<>> -> <<>>
      [] g.text = << <<>> >> -> <<>>
      [] g.text = << <<"use">>, <<" ", "other">> >> -> <<"use", " ", "other">>

SignatureTagNames == {"param", "returns", "return", "template"}
SectionTagNames == {"deprecated", "since", "throws", "exception", "example", "see"}

\* the lines on stdout that render a tag
TagLinesShown ==
    SelectSeq(stdout, LAMBDA l : l.t \in {"DEPRECATED", "Since:", "throws", "example", "see", "tag"})

\* C16 as stated: every tag whose name is not param, returns, return or
\* template is rendered in exactly one section, none twice and none dropped.
C16_EveryTagRenderedOnce ==
    DescriptionDone =>
        Len(TagLinesShown) = Len(SelectSeq(data.tags, LAMBDA g : g.name \notin SignatureTagNames))

\* C16 amended: no tag is rendered in two sections.  The first tag named
\* deprecated and the first tag named since are rendered, further ones are
\* dropped; every throws or exception tag and every see tag is rendered, in
\* order; every example tag with a text is rendered, one without text is
\* dropped; param, returns, return and template tags are not rendered here;
\* the other section holds exactly the tags with any other name, in order,
\* each as '@name text', or '@name' when the tag has no text, and its heading
\* is printed exactly when there is such a tag.
C16_TagSections ==
    DescriptionDone =>
        /\ Len(Lines(stdout, "DEPRECATED")) = (IF TagsNamed({"deprecated"}) = <<>> THEN 0 ELSE 1)
        /\ Lines(stdout, "Since:") =
              (IF TagsNamed({"since"}) = <<>> THEN <<>>
               ELSE <<[t |-> "Since:", text |-> ShownText(TagsNamed({"since"})[1])]>>)
        /\ Lines(stdout, "throws") =
              [i \in 1..Len(TagsNamed({"throws", "exception"})) |->
                  [t |-> "throws", text |-> ShownText(TagsNamed({"throws", "exception"})[i])]]
        /\ Lines(stdout, "see") =
              [i \in 1..Len(TagsNamed({"see"})) |->
                  [t |-> "see", text |-> ShownText(TagsNamed({"see"})[i])]]
        /\ Lines(stdout, "example") =
              SelectSeq([i \in 1..Len(TagsNamed({"example"})) |->
                            [t |-> "example", text |-> ShownText(TagsNamed({"example"})[i])]],
                        LAMBDA l : l.text # <<>>)
        /\ Lines(stdout, "tag") =
              [i \in 1..Len(TagsNamed(TagNames \ (SectionTagNames \cup SignatureTagNames))) |->
                  LET g == TagsNamed(TagNames \ (SectionTagNames \cup SignatureTagNames))[i]
                  IN  [t |-> "tag", name |-> g.name,
                       text |-> IF ShownText(g) = <<>> THEN <<>> ELSE <<" ">> \o ShownText(g)]]
        /\ Len(Lines(stdout, "Tags:")) = (IF Lines(stdout, "tag") = <<>> THEN 0 ELSE 1)

\* two tags named since, of which the second is dropped
C16_Witness ==
    /\ DescriptionDone
    /\ Len(data.tags) = 2
    /\ data.tags[1] = Tag("since", <<>>)
    /\ data.tags[2] = Tag("since", << <<"use">>, <<" ", "other">> >>)
    /\ Lines(stdout, "Since:") = <<[t |-> "Since:", text |-> <<>>]>>
    /\ Len(TagLinesShown) = 1

(***************************************************************************)
(* Doc excerpts of the export listing                                      *)
(***************************************************************************)

\* the first line of a documentation comment
FirstLine(doc) == SplitFirst(doc, "nl")

\* the first line cut to the budget, marked with an ellipsis when it was cut
CutFirstLine(doc) ==
    Slice(FirstLine(doc), DocCap)
    \o (IF StrLen(FirstLine(doc)) > DocCap THEN <<Ellipsis>> ELSE <<>>)

\* C17: in the export listing every doc excerpt is the first line of the
\* export's documentation comment cut to at most 80 characters, and it ends
\* with the ellipsis marker if and only if that first line was longer than 80
\* characters.
C17_EllipsisIffFirstLineCut ==
    \A i \in 1..Len(stdout) :
        stdout[i].t = "export doc" =>
            /\ i > 1
            /\ stdout[i - 1].t = "export"
            /\ stdout[i].text = CutFirstLine(ItemDoc(stdout[i - 1].item))

(***************************************************************************)
(* Doc excerpts of the member listings                                     *)
(***************************************************************************)

\* C18: in every member listing, of an interface and of any other entity,
\* the excerpt printed under a member is the first line of that member's
\* documentation comment and nothing more.
C18_MemberExcerptIsFirstLine ==
    \A i \in 1..Len(stdout) :
        stdout[i].t = "member doc" =>
            /\ i > 1
            /\ stdout[i - 1].t = "member"
            /\ stdout[i].text = FirstLine(ItemDoc(stdout[i - 1].item))
            /\ \A j \in 1..Len(stdout[i].text) : stdout[i].text[j].k # "nl"

(***************************************************************************)
(* The location of the described entity                                    *)
(***************************************************************************)

\* the line of the description that carries the location
LocationLine == Lines(stdout, "Location:")[1]

\* the declaration the description is made of
DescribedDecl == DeclOf(symbol, files)

\* C19: the location printed for a resolved entity names the file that
\* contains the declaration used for the description and the 1-based line of
\* that declaration within that file, also when the symbol was matched in
\* another file than the one of its chosen declaration.
C19_LocationIsOfTheDeclaration ==
    DescriptionDone =>
        /\ LocationLine.file = DescribedDecl.file
        /\ LocationLine.line = LineOfPosition(DescribedDecl.file, DescribedDecl.pos) + 1

(***************************************************************************)
(* The kind and the members of a root match                                *)
(***************************************************************************)

\* the node of the described file on which the root search matched
MatchedNode == Head(MatchingNodes(sourceFile, searchParts[1]))

\* the interface declaration of the described symbol in the described file
MatchedInterface ==
    Head(SelectSeq(SymbolInfo(symbol.key).decls,
                   LAMBDA d : d.file = sourceFile /\ d.kind = "InterfaceDeclaration"))

\* C20: when the root search matches the only segment of the path on a
\* declaration node, the kind shown is the kind of that node; when the node
\* is an interface declaration the description has kind interface and lists
\* the declared members of that interface, also when a variable declaration
\* is merged into the same symbol.
C20_KindOfTheMatchedDeclaration ==
    (DescriptionDone /\ Len(searchParts) = 1
        /\ MatchingNodes(sourceFile, searchParts[1]) # <<>>) =>
        /\ MatchedNode.kind \in {"InterfaceDeclaration", "ClassDeclaration",
                                 "TypeAliasDeclaration", "ModuleDeclaration"} =>
              Descriptions[1].v = GetSymbolKind([kind |-> MatchedNode.kind])
        /\ MatchedNode.kind = "InterfaceDeclaration" =>
              MemberEntries =
                 Lines(InterfaceMemberLines(
                           InterfaceMembers(MatchedInterface, symbol.key, data.extra, data.hole)),
                       "member")

(***************************************************************************)
(* Ordinary source files of the program                                    *)
(***************************************************************************)

\* the loop over the source files has gone past file f of the program
LoopPassed(f) == Contains(files, f) /\ IndexOf(files, f) < idx

\* C21: the root search considers only declaration files.  A source file of
\* the program that is not a declaration file is never handed to the symbol
\* search (neither its tree is traversed nor its export list consulted), and
\* the file a description or an export listing is printed for, as well as the
\* file named in a printed location, is always a declaration file.
C21_OnlyDeclarationFiles ==
    /\ \A i \in 1..Len(scanned) : IsDecl(scanned[i])
    /\ sourceFile # <<>> => IsDecl(sourceFile)
    /\ (Descriptions # <<>> \/ Listings # <<>>) => sourceFile # <<>> /\ IsDecl(sourceFile)
    /\ \A i \in 1..Len(stdout) : stdout[i].t = "Location:" => IsDecl(stdout[i].file)

\* the package's entry point is an ordinary source file; the loop skipped it
\* and the entity is described from the community declarations after it
C21_Witness ==
    /\ DescriptionDone
    /\ LoopPassed(PS)
    /\ ~IsDecl(PS)
    /\ sourceFile = TI
    /\ ~Contains(scanned, PS)

====
